---- MODULE Spec2Model ----
(***************************************************************************)
(* philosofool.data_science.graph: get_ancestors and MetricGraph.          *)
(*                                                                         *)
(* A dependency graph is a Python dict from a metric to the tuple of the   *)
(* metrics it depends on; it is modelled as a TLA+ function whose domain   *)
(* is the set of keys and whose values are sequences.  A computing         *)
(* function is an opaque callable: applying the callable registered under  *)
(* metric m to the arguments xs is the value                               *)
(*     [kind |-> "computed", name |-> m, args |-> xs]                      *)
(* and the column c of the DataFrame holds                                 *)
(*     [kind |-> "column", name |-> c, args |-> <<>>].                     *)
(* A raised exception is an outcome whose status is the name of the        *)
(* exception class; a KeyError carries the key it names and the mapping    *)
(* whose lookup raised it.                                                 *)
(***************************************************************************)
EXTENDS Integers, Sequences, FiniteSets, TLC

VARIABLES
    dependency_graph,   \* MetricGraph.dependency_graph
    metric_functions,   \* MetricGraph.metric_functions
    df,                 \* the caller's DataFrame: column name -> column value
    default_ancestors,  \* the set object bound to get_ancestors' default argument
    call,               \* the last call: its arguments and its outcome
    first               \* the first calculate_metrics call made on the instance

vars == <<dependency_graph, metric_functions, df, default_ancestors, call, first>>

(***************************************************************************)
(* The universe of the model.                                              *)
(***************************************************************************)
MetricOrder == <<"a", "b", "c">>

MaxDeps == 2

MaxRequest == 2

Range(s) == {s[i] : i \in DOMAIN s}

Metrics == Range(MetricOrder)

\* the sequences over S without repetition, of length at most n
Tuples(S, n) ==
    {s \in UNION {[1..k -> S] : k \in 0..n} :
        \A i, j \in DOMAIN s : i # j => s[i] # s[j]}

Pos(s, x) == CHOOSE i \in DOMAIN s : s[i] = x

\* the tuples that list their elements in the order of MetricOrder
Ascending(s) ==
    \A i, j \in DOMAIN s : i < j => Pos(MetricOrder, s[i]) < Pos(MetricOrder, s[j])

DepTuples == Tuples(Metrics, MaxDeps)

Requests == Tuples(Metrics, MaxRequest)

AscendingRequests == {metrics \in Requests : Ascending(metrics)}

\* every dict from some metrics to dependency tuples
Graphs == UNION {[keys -> DepTuples] : keys \in SUBSET Metrics}

AscendingGraphs == {g \in Graphs : \A k \in DOMAIN g : Ascending(g[k])}

ColumnValue(c) == [kind |-> "column", name |-> c, args |-> <<>>]

Apply(f, xs) == [kind |-> "computed", name |-> f, args |-> xs]

\* every DataFrame over some columns
Frames == {[c \in cols |-> ColumnValue(c)] : cols \in SUBSET Metrics}

\* every function table: the callable registered under m is written m
FunctionTables == {[m \in ms |-> m] : ms \in SUBSET Metrics}

(***************************************************************************)
(* get_ancestors.  The result is [ret, passed]: the returned set, and the  *)
(* content of the set object the caller passed as `ancestors` when the     *)
(* call returns.                                                           *)
(***************************************************************************)
\* graph.get(value, [])
graph_get(graph, value) == IF value \in DOMAIN graph THEN graph[value] ELSE <<>>

RECURSIVE get_ancestors(_, _, _)
RECURSIVE ancestors_loop(_, _, _, _)

\* the for loop from predecessors[i] on; `ancestors` is the local copy
ancestors_loop(graph, predecessors, i, ancestors) ==
    IF i > Len(predecessors) THEN ancestors
    ELSE LET predecessor == predecessors[i] IN
         IF predecessor \in ancestors
         THEN ancestors_loop(graph, predecessors, i + 1, ancestors)
         ELSE LET added == ancestors \cup {predecessor}
                  inner == get_ancestors(predecessor, graph, added)
              IN  ancestors_loop(graph, predecessors, i + 1,
                                 inner.passed \cup inner.ret)

\* a get_ancestors that works on the passed set itself (no ancestors.copy())
get_ancestors_inplace(value, graph, ancestors) ==
    LET local == ancestors_loop(graph, graph_get(graph, value), 1, ancestors)
    IN  [ret |-> local, passed |-> local]

\* a get_ancestors that does not descend into its predecessors
get_ancestors_direct(value, graph, ancestors) ==
    [ret |-> ancestors \cup Range(graph_get(graph, value)), passed |-> ancestors]

get_ancestors(value, graph, ancestors) ==
    LET copy == ancestors
        local == ancestors_loop(graph, graph_get(graph, value), 1, copy)
    IN  [ret |-> local, passed |-> ancestors]

(***************************************************************************)
(* graphlib.TopologicalSorter(graph).static_order().  The nodes are the    *)
(* keys and their predecessors; the order yielded depends on the insertion *)
(* order of the dict, which the model leaves open: any order that puts     *)
(* every predecessor before its node may be yielded, and CycleError is     *)
(* raised when there is none.                                              *)
(***************************************************************************)
Nodes(graph) == DOMAIN graph \cup UNION {Range(graph[k]) : k \in DOMAIN graph}

Permutations_(S) == {s \in [1..Cardinality(S) -> S] : Range(s) = S}

Linearizes(s, graph) ==
    \A k \in DOMAIN graph : \A p \in Range(graph[k]) : Pos(s, p) < Pos(s, k)

\* an order that ignores the edges, and never raises
static_order_unchecked(graph) ==
    {[status |-> "ok", order |-> s] : s \in Permutations_(Nodes(graph))}

static_order(graph) ==
    LET orders == {s \in Permutations_(Nodes(graph)) : Linearizes(s, graph)}
    IN  IF orders = {}
        THEN {[status |-> "CycleError", order |-> <<>>]}
        ELSE {[status |-> "ok", order |-> s] : s \in orders}

(***************************************************************************)
(* Outcomes of the MetricGraph methods.                                    *)
(***************************************************************************)
NoWalk == [calculated |-> <<>>, invoked |-> <<>>, attempted |-> {}, from_table |-> {}]

Outcome(status, key, site, ret, walk) ==
    [status |-> status, key |-> key, site |-> site, ret |-> ret,
     calculated |-> walk.calculated,   \* calculated_metrics when the call ended
     invoked |-> walk.invoked,         \* metric -> the keys of calculated_metrics
                                       \*   when its callable was called
     attempted |-> walk.attempted,     \* metrics given to _calculate_metric
     from_table |-> walk.from_table]   \* metrics resolved to the table's column

Raise(status, key, site, walk) == Outcome(status, key, site, <<>>, walk)

\* _topologically_sorted_metrics: {metric: i for i, metric in enumerate(order)}
topologically_sorted_metrics(order) == [m \in Range(order) |-> Pos(order, m)]

\* sorted(metrics, key=...) for a rank defined on all of metrics
RECURSIVE sorted_by(_, _)
sorted_by(metrics, rank) ==
    IF metrics = {} THEN <<>>
    ELSE LET least == CHOOSE m \in metrics : \A n \in metrics : rank[m] <= rank[n]
         IN  <<least>> \o sorted_by(metrics \ {least}, rank)

RECURSIVE reversed(_)
reversed(s) == IF s = <<>> THEN <<>> ELSE reversed(Tail(s)) \o <<Head(s)>>

\* a sort that puts dependents before their dependencies
sort_metrics_descending(metrics, rank) ==
    LET unranked == metrics \ DOMAIN rank
    IN  IF unranked # {}
        THEN {[status |-> "KeyError", key |-> m, sorted |-> <<>>] : m \in unranked}
        ELSE {[status |-> "ok", key |-> "", sorted |-> reversed(sorted_by(metrics, rank))]}

\* _sort_metrics_topologically, given the rank dict.  The key function raises
\* KeyError for a metric without a rank; which one it meets first depends on the
\* iteration order of the set.
sort_metrics_topologically(metrics, rank) ==
    LET unranked == metrics \ DOMAIN rank
    IN  IF unranked # {}
        THEN {[status |-> "KeyError", key |-> m, sorted |-> <<>>] : m \in unranked}
        ELSE {[status |-> "ok", key |-> "", sorted |-> sorted_by(metrics, rank)]}

\* a _calculate_metric that reads the dependencies with dependency_graph.get(metric, ())
calculate_metric_default(metric, calculated_metrics) ==
    IF metric \notin DOMAIN metric_functions
    THEN [status |-> "KeyError", key |-> metric, site |-> "metric_functions", value |-> <<>>]
    ELSE LET dependencies == graph_get(dependency_graph, metric)
             missing == {i \in DOMAIN dependencies :
                            dependencies[i] \notin DOMAIN calculated_metrics}
         IN  IF missing # {}
             THEN [status |-> "KeyError",
                   key |-> dependencies[CHOOSE i \in missing : \A j \in missing : i <= j],
                   site |-> "calculated_metrics", value |-> <<>>]
             ELSE [status |-> "ok", key |-> "", site |-> "",
                   value |-> Apply(metric_functions[metric],
                                   [i \in DOMAIN dependencies |->
                                       calculated_metrics[dependencies[i]]])]

\* _calculate_metric
calculate_metric(metric, calculated_metrics) ==
    IF metric \notin DOMAIN metric_functions
    THEN [status |-> "KeyError", key |-> metric, site |-> "metric_functions", value |-> <<>>]
    ELSE IF metric \notin DOMAIN dependency_graph
    THEN [status |-> "KeyError", key |-> metric, site |-> "dependency_graph", value |-> <<>>]
    ELSE LET dependencies == dependency_graph[metric]
             missing == {i \in DOMAIN dependencies :
                            dependencies[i] \notin DOMAIN calculated_metrics}
         IN  IF missing # {}
             THEN [status |-> "KeyError",
                   key |-> dependencies[CHOOSE i \in missing : \A j \in missing : i <= j],
                   site |-> "calculated_metrics", value |-> <<>>]
             ELSE [status |-> "ok", key |-> "", site |-> "",
                   value |-> Apply(metric_functions[metric],
                                   [i \in DOMAIN dependencies |->
                                       calculated_metrics[dependencies[i]]])]

(***************************************************************************)
(* calculate_metrics.                                                      *)
(***************************************************************************)
\* functools.reduce(lambda a, b: a.union(get_ancestors(b, graph, a)), metrics, initial)
RECURSIVE reduce_ancestors(_, _, _)
reduce_ancestors(metrics, i, a) ==
    IF i > Len(metrics) THEN a
    ELSE reduce_ancestors(metrics, i + 1,
                          a \cup get_ancestors(metrics[i], dependency_graph, a).ret)

\* a closure seeded with nothing: present columns are expanded like the rest
calculate_dependencies_unseeded(frame, metrics) ==
    (DOMAIN frame \cap DOMAIN dependency_graph) \cup reduce_ancestors(metrics, 1, {})

\* line 106: the closure, seeded with the columns that are keys of the graph
calculate_dependencies(frame, metrics) ==
    reduce_ancestors(metrics, 1, DOMAIN frame \cap DOMAIN dependency_graph)

\* one step of a walk: calculated_metrics[metric] = self._calculate_metric(...)
Calculated(walk, metric, value) ==
    [calculated |-> (metric :> value) @@ walk.calculated,
     invoked |-> (metric :> DOMAIN walk.calculated) @@ walk.invoked,
     attempted |-> walk.attempted \cup {metric},
     from_table |-> walk.from_table]

\* one step of a walk: calculated_metrics[metric] = value
Taken(walk, metric, value) ==
    [calculated |-> (metric :> value) @@ walk.calculated,
     invoked |-> walk.invoked,
     attempted |-> walk.attempted,
     from_table |-> walk.from_table \cup {metric}]

Failed(walk, metric, error) ==
    Raise(error.status, error.key, error.site,
          [walk EXCEPT !.attempted = @ \cup {metric}])

\* a match that takes the table's column whenever there is one
use_column_when_present(frame, _metrics, metric) == metric \in DOMAIN frame

\* the match of lines 111-117: TRUE when the table's value is taken
use_column(frame, _metrics, metric) ==
    metric \in DOMAIN frame /\ metric \notin _metrics

\* the for loop of lines 110-117 from sorted[i] on
RECURSIVE calculate_walk(_, _, _, _, _)
calculate_walk(frame, _metrics, sorted, i, walk) ==
    IF i > Len(sorted) THEN Outcome("ok", "", "", <<>>, walk)
    ELSE LET metric == sorted[i] IN
         IF use_column(frame, _metrics, metric)
         THEN calculate_walk(frame, _metrics, sorted, i + 1,
                             Taken(walk, metric, frame[metric]))
         ELSE LET r == calculate_metric(metric, walk.calculated) IN
              IF r.status # "ok" THEN Failed(walk, metric, r)
              ELSE calculate_walk(frame, _metrics, sorted, i + 1,
                                  Calculated(walk, metric, r.value))

\* a return of the whole working set
return_calculated(done, metrics) ==
    IF done.status # "ok" THEN done ELSE [done EXCEPT !.ret = done.calculated]

\* {metric: calculated_metrics[metric] for metric in metrics}
return_requested(done, metrics) ==
    IF done.status # "ok" THEN done
    ELSE [done EXCEPT !.ret = [m \in Range(metrics) |-> done.calculated[m]]]

\* calculate_metrics(df, metrics) when static_order() ends as `order`: the
\* outcomes the call can have
calculate_metrics(frame, metrics, order) ==
    LET dependencies == calculate_dependencies(frame, metrics)
        todo == dependencies \cup Range(metrics)
    IN  IF order.status # "ok"
        THEN {Raise(order.status, "", "static_order", NoWalk)}
        ELSE {IF s.status # "ok"
              THEN Raise(s.status, s.key, "_top_sorted_metrics", NoWalk)
              ELSE return_requested(
                       calculate_walk(frame, Range(metrics), s.sorted, 1, NoWalk),
                       metrics)
              : s \in sort_metrics_topologically(
                          todo, topologically_sorted_metrics(order.order))}

(***************************************************************************)
(* get_metric_dependencies and recalculate_metrics.                        *)
(***************************************************************************)
\* the for loop of lines 151-153 from metrics[i] on
RECURSIVE dependencies_loop(_, _, _)
dependencies_loop(metrics, i, dependencies) ==
    IF i > Len(metrics) THEN dependencies
    ELSE LET metric_ancestors ==
                 get_ancestors(metrics[i], dependency_graph, dependencies).ret
         IN  dependencies_loop(metrics, i + 1, dependencies \cup metric_ancestors)

\* a loop that keeps only the last metric's ancestors
get_last_dependencies(metrics) ==
    IF metrics = <<>> THEN {}
    ELSE get_ancestors(metrics[Len(metrics)], dependency_graph, {}).ret

get_metric_dependencies(metrics) == dependencies_loop(metrics, 1, {})

\* the for loop of lines 134-135 from sorted[i] on
RECURSIVE recalculate_walk(_, _, _)
recalculate_walk(sorted, i, walk) ==
    IF i > Len(sorted) THEN Outcome("ok", "", "", <<>>, walk)
    ELSE LET metric == sorted[i]
             r == calculate_metric(metric, walk.calculated)
         IN  IF r.status # "ok" THEN Failed(walk, metric, r)
             ELSE recalculate_walk(sorted, i + 1, Calculated(walk, metric, r.value))

\* a recalculation that walks as calculate_metrics does
recalculate_metrics_cached(frame, metrics, order) ==
    calculate_metrics(frame, metrics, order)

\* recalculate_metrics(df, metrics) when static_order() ends as `order`
recalculate_metrics(frame, metrics, order) ==
    LET todo == get_metric_dependencies(metrics) \cup Range(metrics)
    IN  IF order.status # "ok"
        THEN {Raise(order.status, "", "static_order", NoWalk)}
        ELSE {IF s.status # "ok"
              THEN Raise(s.status, s.key, "_top_sorted_metrics", NoWalk)
              ELSE return_requested(recalculate_walk(s.sorted, 1, NoWalk), metrics)
              : s \in sort_metrics_topologically(
                          todo, topologically_sorted_metrics(order.order))}

\* the metrics property: tuple(self._topologically_sorted_metrics())
metrics_property(order) ==
    IF order.status # "ok"
    THEN Raise(order.status, "", "static_order", NoWalk)
    ELSE Outcome("ok", "", "", order.order, NoWalk)

(***************************************************************************)
(* The calls.                                                              *)
(***************************************************************************)
NoArgs == [value |-> "", seeded |-> FALSE, seed |-> {}, metrics |-> <<>>]

Called(op, args, out) ==
    [op |-> op, value |-> args.value, seeded |-> args.seeded, seed |-> args.seed,
     metrics |-> args.metrics, out |-> out]

NoCall == Called("none", NoArgs, Outcome("ok", "", "", <<>>, NoWalk))

\* the call returns (or raises) to the caller; nothing of the instance is assigned
Return(c) ==
    /\ call' = c
    /\ first' = IF first.op = "none" /\ c.op = "calculate_metrics" THEN c ELSE first
    /\ UNCHANGED <<dependency_graph, metric_functions, df>>

\* get_ancestors(value, self.dependency_graph): the default set is the seed
GetAncestors(value) ==
    LET r == get_ancestors(value, dependency_graph, default_ancestors) IN
    /\ Return(Called("get_ancestors", [NoArgs EXCEPT !.value = value],
                     Outcome("ok", "", "", r.ret, NoWalk)))
    /\ default_ancestors' = r.passed

\* get_ancestors(value, self.dependency_graph, seed); out.from_table holds the
\* caller's seed set as the call leaves it
GetAncestorsSeeded(value, seed) ==
    LET r == get_ancestors(value, dependency_graph, seed) IN
    /\ Return(Called("get_ancestors",
                     [NoArgs EXCEPT !.value = value, !.seeded = TRUE, !.seed = seed],
                     [Outcome("ok", "", "", r.ret, NoWalk) EXCEPT !.from_table = r.passed]))
    /\ UNCHANGED default_ancestors

GetMetricDependencies(metrics) ==
    /\ Return(Called("get_metric_dependencies", [NoArgs EXCEPT !.metrics = metrics],
                     Outcome("ok", "", "", get_metric_dependencies(metrics), NoWalk)))
    /\ UNCHANGED default_ancestors

CalculateMetrics(metrics) ==
    /\ \E order \in static_order(dependency_graph) :
       \E out \in calculate_metrics(df, metrics, order) :
          Return(Called("calculate_metrics", [NoArgs EXCEPT !.metrics = metrics], out))
    /\ UNCHANGED default_ancestors

RecalculateMetrics(metrics) ==
    /\ \E order \in static_order(dependency_graph) :
       \E out \in recalculate_metrics(df, metrics, order) :
          Return(Called("recalculate_metrics", [NoArgs EXCEPT !.metrics = metrics], out))
    /\ UNCHANGED default_ancestors

MetricsProperty ==
    /\ \E order \in static_order(dependency_graph) :
          Return(Called("metrics", NoArgs, metrics_property(order)))
    /\ UNCHANGED default_ancestors

(***************************************************************************)
(* Spec: one MetricGraph over any graph, function table and DataFrame;     *)
(* each behaviour observes one call.  Dependency tuples and requests list  *)
(* their metrics in the order of MetricOrder.                              *)
(***************************************************************************)
Init ==
    /\ dependency_graph \in AscendingGraphs
    /\ metric_functions \in FunctionTables
    /\ df \in Frames
    /\ default_ancestors = {}
    /\ call = NoCall
    /\ first = NoCall

Calculate ==
    call.op = "none" /\ \E metrics \in AscendingRequests : CalculateMetrics(metrics)

Recalculate ==
    call.op = "none" /\ \E metrics \in AscendingRequests : RecalculateMetrics(metrics)

TopologicalOrder == call.op = "none" /\ MetricsProperty

Ancestors == call.op = "none" /\ \E value \in Metrics : GetAncestors(value)

Next == Calculate \/ Recalculate \/ TopologicalOrder \/ Ancestors

Spec == Init /\ [][Next]_vars

(***************************************************************************)
(* SpecAncestors: get_ancestors and get_metric_dependencies over every     *)
(* graph, the dependency tuples in any order; each behaviour observes one  *)
(* call.                                                                   *)
(***************************************************************************)
InitAncestors ==
    /\ dependency_graph \in Graphs
    /\ metric_functions = <<>>
    /\ df = <<>>
    /\ default_ancestors = {}
    /\ call = NoCall
    /\ first = NoCall

AncestorsSeeded ==
    call.op = "none" /\ \E value \in Metrics : \E seed \in SUBSET Metrics :
        GetAncestorsSeeded(value, seed)

Dependencies ==
    call.op = "none" /\ \E metrics \in Requests : GetMetricDependencies(metrics)

NextAncestors == Ancestors \/ AncestorsSeeded \/ Dependencies

SpecAncestors == InitAncestors /\ [][NextAncestors]_vars

(***************************************************************************)
(* SpecSession: any sequence of calls on one MetricGraph built by          *)
(* from_model (a function for every key of the graph) with the keys a and  *)
(* b, over a table that holds the column c.                                *)
(***************************************************************************)
InitSession ==
    /\ dependency_graph \in {g \in AscendingGraphs : DOMAIN g = {"a", "b"}}
    /\ metric_functions = [m \in DOMAIN dependency_graph |-> m]
    /\ df = [c \in {"c"} |-> ColumnValue(c)]
    /\ default_ancestors = {}
    /\ call = NoCall
    /\ first = NoCall

NextSession ==
    \/ \E metrics \in AscendingRequests : CalculateMetrics(metrics)
    \/ \E metrics \in AscendingRequests : RecalculateMetrics(metrics)
    \/ MetricsProperty
    \/ \E value \in Metrics : GetAncestors(value)
    \/ \E value \in Metrics : \E seed \in SUBSET Metrics : GetAncestorsSeeded(value, seed)
    \/ \E metrics \in Requests : GetMetricDependencies(metrics)

SpecSession == InitSession /\ [][NextSession]_vars

(***************************************************************************)
(* What the properties speak of, defined without the code's algorithms.    *)
(***************************************************************************)
Edges(graph, x) == Range(graph_get(graph, x))

RECURSIVE Closure(_, _, _)
Closure(graph, set, n) ==
    IF n = 0 THEN set
    ELSE Closure(graph, set \cup UNION {Edges(graph, x) : x \in set}, n - 1)

\* the identifiers reached from v by one or more dependency edges
Reachable(graph, v) == Closure(graph, Edges(graph, v), Cardinality(Metrics))

Cyclic(graph) == \E v \in Nodes(graph) : v \in Reachable(graph, v)

out == call.out

requested == Range(call.metrics)

IsCalculate == call.op = "calculate_metrics"

IsRecalculate == call.op = "recalculate_metrics"

\* metrics the walk reached
Walked == DOMAIN out.calculated \cup out.attempted

\* calculate_metrics computes m rather than reading the table
MustCompute(m) == m \in requested \/ m \notin DOMAIN df

Computable(m) == m \in DOMAIN metric_functions /\ m \in DOMAIN dependency_graph

\* the requested metrics and what they need, not looking behind a column that
\* is read from the table
RECURSIVE NeededFrom(_, _)
NeededFrom(set, n) ==
    IF n = 0 THEN set
    ELSE NeededFrom(set \cup UNION {Edges(dependency_graph, x) :
                                       x \in {y \in set : MustCompute(y)}}, n - 1)

Needed == NeededFrom(requested, Cardinality(Metrics))

\* metrics calculate_metrics has to compute and cannot
Blocked ==
    LET needed == Needed
    IN  {m \in needed : MustCompute(m) /\ ~Computable(m)}
            \cup (requested \ Nodes(dependency_graph))

\* the requested metrics and all their transitive dependencies
Reached == requested \cup UNION {Reachable(dependency_graph, m) : m \in requested}

Computed(m, calculated) ==
    Apply(m, [i \in DOMAIN dependency_graph[m] |-> calculated[dependency_graph[m][i]]])

(***************************************************************************)
(* C1. In calculate_metrics and recalculate_metrics on an acyclic graph,   *)
(* when a metric's computing function is called every metric of its        *)
(* dependency list already has a value in calculated_metrics, and no       *)
(* lookup of a dependency in calculated_metrics fails.                     *)
(***************************************************************************)
C1_DependenciesResolved ==
    (IsCalculate \/ IsRecalculate) /\ ~Cyclic(dependency_graph) =>
        /\ \A m \in DOMAIN out.invoked :
              Range(dependency_graph[m]) \subseteq out.invoked[m]
        /\ ~(out.status = "KeyError" /\ out.site = "calculated_metrics")

C1_Witness ==
    /\ IsCalculate /\ out.status = "ok"
    /\ \E m \in DOMAIN out.invoked :
          /\ Range(dependency_graph[m]) \cap out.from_table # {}
          /\ Range(dependency_graph[m]) \cap DOMAIN out.invoked # {}

(***************************************************************************)
(* C2. get_ancestors(v, G) with the default seed returns exactly the       *)
(* identifiers reachable from v by one or more dependency edges, on        *)
(* acyclic and cyclic graphs alike; v is in the result iff v lies on a     *)
(* cycle, and identifiers that are no keys of G are leaves.                *)
(***************************************************************************)
C2_AncestorsAreReachable ==
    call.op = "get_ancestors" /\ ~call.seeded =>
        /\ out.status = "ok"
        /\ out.ret = Reachable(dependency_graph, call.value)
        /\ (call.value \in out.ret <=>
               \E p \in Edges(dependency_graph, call.value) :
                  p = call.value \/ call.value \in Reachable(dependency_graph, p))
        /\ \A m \in out.ret \ DOMAIN dependency_graph :
              \E k \in DOMAIN dependency_graph : m \in Range(dependency_graph[k])

C2_Witness ==
    /\ call.op = "get_ancestors" /\ ~call.seeded
    /\ call.value \in out.ret
    /\ out.ret = Metrics
    /\ Cardinality(DOMAIN dependency_graph) = Cardinality(Metrics)
    /\ \A k \in DOMAIN dependency_graph : Len(dependency_graph[k]) = 1

(***************************************************************************)
(* C3. In the walk of calculate_metrics a metric's computing function is   *)
(* called iff the metric is requested or the table has no column of that   *)
(* name: a requested metric is computed even when the column exists, and   *)
(* its returned value is the function's result; a metric that is not       *)
(* requested and has a column takes the table's value.                     *)
(***************************************************************************)
C3_RequestedAlwaysComputed ==
    IsCalculate =>
        /\ \A m \in Walked : m \in out.attempted <=> MustCompute(m)
        /\ \A m \in Walked : m \in out.from_table <=> ~MustCompute(m)
        /\ DOMAIN out.invoked = out.attempted \cap DOMAIN out.calculated
        /\ out.status = "ok" => DOMAIN out.invoked = out.attempted
        /\ \A m \in DOMAIN out.invoked : out.calculated[m] = Computed(m, out.calculated)
        /\ \A m \in out.from_table : out.calculated[m] = df[m]
        /\ out.status = "ok" =>
              \A m \in requested : out.ret[m] = Computed(m, out.calculated)
                                   /\ out.ret[m] # ColumnValue(m)

C3_Witness ==
    /\ IsCalculate /\ out.status = "ok"
    /\ \E m \in requested : m \in DOMAIN df /\ m \in DOMAIN out.invoked
    /\ \E m \in out.from_table : m \in DOMAIN metric_functions
                                 /\ m \in DOMAIN dependency_graph

(***************************************************************************)
(* C4. In calculate_metrics a dependency that is not requested and is a    *)
(* column of the table hides its own dependencies: they are neither looked *)
(* up nor computed unless needed along a path that passes through no such  *)
(* column, and whether the call completes does not depend on them.         *)
(***************************************************************************)
C4_GrandparentsNotNeeded ==
    IsCalculate =>
        LET needed == Needed
            walked == Walked
        IN  /\ walked \subseteq needed \cup (DOMAIN df \cap DOMAIN dependency_graph)
            /\ \A d \in out.from_table : \A g \in Edges(dependency_graph, d) :
                  g \notin needed /\ g \notin DOMAIN df => g \notin walked
            /\ out.status = "ok" <=> ~Cyclic(dependency_graph) /\ Blocked = {}

C4_Witness ==
    /\ IsCalculate /\ out.status = "ok"
    /\ \E m \in requested : \E d \in Edges(dependency_graph, m) :
          /\ d \in out.from_table
          /\ \E g \in Edges(dependency_graph, d) :
                /\ g \notin DOMAIN df
                /\ g \notin DOMAIN metric_functions
                /\ g \notin Walked

(***************************************************************************)
(* C5. The mapping calculate_metrics or recalculate_metrics returns has    *)
(* exactly the requested metrics as keys; a dependency computed during the *)
(* walk and not requested is not in it.                                    *)
(***************************************************************************)
C5_OnlyRequestedReturned ==
    (IsCalculate \/ IsRecalculate) /\ out.status = "ok" =>
        /\ DOMAIN out.ret = requested
        /\ \A m \in requested : out.ret[m] = out.calculated[m]

C5_Witness ==
    /\ IsCalculate /\ out.status = "ok"
    /\ DOMAIN out.invoked \ requested # {}
    /\ requested # {}

(***************************************************************************)
(* C6 as stated: when a metric reachable from the request has no computing *)
(* function, recalculate_metrics fails with the missing-function error.    *)
(***************************************************************************)
C6_MissingFunctionError ==
    IsRecalculate /\ Reached \ DOMAIN metric_functions # {} =>
        out.status = "KeyError"

(***************************************************************************)
(* C6 as amended: recalculate_metrics never reads a table column, and      *)
(* computes every requested metric and every transitive dependency from    *)
(* its function; when one of them has no function the call returns no      *)
(* result: it fails with KeyError on an acyclic graph and with CycleError   *)
(* on a graph with a cycle.                                                *)
(***************************************************************************)
C6_RecalculateAll ==
    IsRecalculate =>
        /\ out.from_table = {}
        /\ \A m \in DOMAIN out.calculated :
              /\ m \in DOMAIN out.invoked
              /\ out.calculated[m] = Computed(m, out.calculated)
        /\ out.status = "ok" => DOMAIN out.invoked = Reached
        /\ Reached \ DOMAIN metric_functions # {} =>
              /\ out.ret = <<>>
              /\ out.status =
                    IF Cyclic(dependency_graph) THEN "CycleError" ELSE "KeyError"

C6_Witness ==
    /\ IsRecalculate /\ out.status = "KeyError" /\ out.site = "metric_functions"
    /\ out.key \in DOMAIN df
    /\ out.key \notin requested
    /\ out.key \notin DOMAIN dependency_graph

(***************************************************************************)
(* C7 as stated: calculate_metrics with a requested metric M that has no   *)
(* function and no column fails with a KeyError that names M.              *)
(***************************************************************************)
C7_ErrorNamesRequested ==
    IsCalculate =>
        \A m \in requested :
            m \notin DOMAIN metric_functions /\ m \notin DOMAIN df =>
                out.status = "KeyError" /\ out.key = m

(***************************************************************************)
(* C7 as amended: calculate_metrics with a requested metric M that has no  *)
(* function and no column returns no result.  On a graph with a cycle it   *)
(* fails with CycleError; otherwise with a KeyError naming a metric that   *)
(* cannot be computed: a requested metric that is no node of the graph, or *)
(* a needed metric that is requested or not a column and has no function   *)
(* or no entry in the graph.  That is M when M is the only such metric.  A *)
(* metric the walk reaches that is to be computed and has no function is   *)
(* the one the error names.                                                *)
(***************************************************************************)
C7_ErrorNamesBlocked ==
    IsCalculate =>
        LET blocked == Blocked
            cyclic == Cyclic(dependency_graph)
        IN  /\ (\E m \in requested :
                   m \notin DOMAIN metric_functions /\ m \notin DOMAIN df) => blocked # {}
            /\ blocked # {} =>
                  /\ out.status # "ok" /\ out.ret = <<>>
                  /\ cyclic => out.status = "CycleError"
                  /\ ~cyclic => out.status = "KeyError" /\ out.key \in blocked
            /\ \A d \in out.attempted :
                  d \notin DOMAIN metric_functions =>
                      out.status = "KeyError" /\ out.key = d
                      /\ out.site = "metric_functions"

C7_Witness ==
    /\ IsCalculate /\ out.status = "KeyError" /\ out.site = "metric_functions"
    /\ out.key \in requested
    /\ out.key \notin DOMAIN df
    /\ out.calculated # <<>>

(***************************************************************************)
(* C8. On a graph with a dependency cycle calculate_metrics,               *)
(* recalculate_metrics and the metrics property end in CycleError and call *)
(* no computing function, while get_ancestors on the same graph returns.   *)
(***************************************************************************)
C8_CycleError ==
    Cyclic(dependency_graph) =>
        /\ call.op \in {"calculate_metrics", "recalculate_metrics", "metrics"} =>
              /\ out.status = "CycleError"
              /\ out.invoked = <<>> /\ out.attempted = {} /\ out.ret = <<>>
        /\ call.op = "get_ancestors" =>
              out.status = "ok" /\ out.ret = Reachable(dependency_graph, call.value)

C8_Witness ==
    /\ dependency_graph = [m \in {"a", "b"} |-> IF m = "a" THEN <<"b">> ELSE <<"a">>]
    /\ IsCalculate /\ requested = {"a", "b"}
    /\ DOMAIN metric_functions = {"a", "b"}
    /\ out.status = "CycleError"

(***************************************************************************)
(* C9. get_metric_dependencies returns the union of get_ancestors(m,       *)
(* graph) over the starting metrics m, whatever the order in which the     *)
(* collection is iterated.                                                 *)
(***************************************************************************)
C9_DependenciesAreUnion ==
    call.op = "get_metric_dependencies" =>
        /\ out.ret = UNION {get_ancestors(m, dependency_graph, {}).ret : m \in requested}
        /\ \A other \in Permutations_(requested) :
              get_metric_dependencies(other) = out.ret

C9_Witness ==
    /\ call.op = "get_metric_dependencies" /\ Len(call.metrics) = 2
    /\ LET one == get_ancestors(call.metrics[1], dependency_graph, {}).ret
           two == get_ancestors(call.metrics[2], dependency_graph, {}).ret
       IN  /\ one \cap two # {}
           /\ one \ two # {}
           /\ two \ one # {}

(***************************************************************************)
(* C10. No call assigns the dependency graph, the function table, the      *)
(* table, the default set of get_ancestors or the caller's seed set, and   *)
(* after any sequence of calls calculate_metrics with the request of the   *)
(* first calculate_metrics call returns what that first call returned.     *)
(***************************************************************************)
C10_Idempotent ==
    [][/\ dependency_graph' = dependency_graph
       /\ metric_functions' = metric_functions
       /\ df' = df
       /\ default_ancestors' = default_ancestors
       /\ call'.seeded => call'.out.from_table = call'.seed
       /\ call'.op = "calculate_metrics" /\ call'.metrics = first'.metrics =>
             /\ call'.out.status = first'.out.status
             /\ call'.out.ret = first'.out.ret]_vars

C10_Witness ==
    /\ first.op = "calculate_metrics" /\ first.out.status = "ok"
    /\ IsCalculate /\ call.metrics = first.metrics /\ Len(call.metrics) = 2
    /\ call # first
    /\ default_ancestors = {}

====
